---- MODULE Spec2Model ----
(***************************************************************************)
(* Model of src/src/semaphore.ts: the Semaphore class (resource pool,      *)
(* request queue, acquire / release / flush / drop) driven by callers.     *)
(* Every public method runs to completion in one callback turn, so each    *)
(* method is one action.  src/src/rate-limiter.ts: SimpleRateLimiter, a     *)
(* semaphore of unit resources whose permits are given back by timers.     *)
(***************************************************************************)
EXTENDS Integers, Sequences, FiniteSets, TLC

\* ---------------------------------------------------------------- bounds
MaxPermits == 2     \* largest `permits` a semaphore is constructed with
MaxCalls   == 3     \* acquire() calls issued over a run
MaxMisuse  == 1     \* release() calls that break the caller contract
MaxRequests == 2    \* largest `requests` a rate limiter is constructed with
MaxInterval == 2    \* largest `interval` (ms) a rate limiter is constructed with
MaxTime    == 2     \* ms of clock time that may pass with no timer pending

Calls == 1..MaxCalls

\* ----------------------------------------------------------------- state
VARIABLES
  permits,      \* Semaphore.permits (readonly)
  closed,       \* Semaphore.closed
  resources,    \* Semaphore.resources : Denque<T>, head first
  requests,     \* Semaphore.requests  : Denque<SemaphoreRequest<T>>, head first
  outcome,      \* state of the promise returned by each acquire() call
  got,          \* resource an acquire() promise resolved with (0: none)
  holding,      \* calls whose caller owns the resource it received
  nextCall,     \* number of the next acquire() call
  enqLog,       \* requests in the order acquire() pushed them
  fulfilLog,    \* requests in the order _fulfill resolved them
  cancelLog,    \* requests in the order flush rejected them
  lastOp,       \* the method called last
  onlyAcquires, \* no release / flush / drop has been called yet
  misuses,      \* contract-breaking release() calls so far
  dropState,    \* state of the promise returned by the last drop() call
  dropOpts,     \* options of the last drop() call
  dropPre,      \* the semaphore as the last drop() call found it
  handled,      \* resources passed to options.fn, in call order
  limiter,      \* SimpleRateLimiter: its options and its delay
  now,          \* the host clock, in ticks
  timers,       \* pending setTimeout callbacks, earliest first
  callAt,       \* time of each SimpleRateLimiter.acquire() call (-1: none)
  admitAt       \* time each such call was granted its permit (-1: not yet)

rlVars == <<limiter, now, timers, callAt, admitAt>>

vars == <<permits, closed, resources, requests, outcome, got, holding,
          nextCall, enqLog, fulfilLog, cancelLog, lastOp, onlyAcquires,
          misuses, dropState, dropOpts, dropPre, handled,
          limiter, now, timers, callAt, admitAt>>

\* The current state as one record, so that the methods are functions on it.
Sem ==
  [permits |-> permits, closed |-> closed, resources |-> resources,
   requests |-> requests, outcome |-> outcome, got |-> got,
   holding |-> holding, enqLog |-> enqLog, fulfilLog |-> fulfilLog,
   cancelLog |-> cancelLog, dropState |-> dropState, handled |-> handled]

Become(t) ==
  /\ permits' = t.permits
  /\ closed' = t.closed
  /\ resources' = t.resources
  /\ requests' = t.requests
  /\ outcome' = t.outcome
  /\ got' = t.got
  /\ holding' = t.holding
  /\ enqLog' = t.enqLog
  /\ fulfilLog' = t.fulfilLog
  /\ cancelLog' = t.cancelLog
  /\ dropState' = t.dropState
  /\ handled' = t.handled

Range(q) == {q[i] : i \in 1..Len(q)}

\* ------------------------------------------------------------ constructor
\* new Semaphore({permits, resource}): the factory is called once per permit;
\* the n-th resource it returns is written n.
Construct(p) ==
  [permits |-> p, closed |-> FALSE,
   resources |-> [i \in 1..p |-> i],
   requests |-> <<>>,
   outcome |-> [c \in Calls |-> "none"],
   got |-> [c \in Calls |-> 0],
   holding |-> {}, enqLog |-> <<>>, fulfilLog |-> <<>>, cancelLog |-> <<>>,
   dropState |-> "none", handled |-> <<>>]

\* A semaphore used on its own: no rate limiter, and no clock is read.
NoLimiter ==
  [requests |-> 0, interval |-> 0, uniformDistribution |-> FALSE, delay |-> 0]

Init ==
  /\ limiter = NoLimiter
  /\ now = 0
  /\ timers = <<>>
  /\ callAt = [c \in Calls |-> -1]
  /\ admitAt = [c \in Calls |-> -1]
  /\ \E p \in 1..MaxPermits :
       LET t == Construct(p) IN
         /\ permits = t.permits
         /\ closed = t.closed
         /\ resources = t.resources
         /\ requests = t.requests
         /\ outcome = t.outcome
         /\ got = t.got
         /\ holding = t.holding
         /\ enqLog = t.enqLog
         /\ fulfilLog = t.fulfilLog
         /\ cancelLog = t.cancelLog
         /\ dropState = t.dropState
         /\ handled = t.handled
  /\ nextCall = 1
  /\ lastOp = "construct"
  /\ onlyAcquires = TRUE
  /\ misuses = 0
  /\ dropOpts = "none"
  /\ dropPre = [open |-> TRUE, idle |-> TRUE, full |-> TRUE, holding |-> {}]

\* ---------------------------------------------------------------- _fulfill
FulfillNewest(s) ==
  IF Len(s.requests) = 0 \/ Len(s.resources) = 0
  THEN s
  ELSE LET w == s.requests[Len(s.requests)]
           r == Head(s.resources)
       IN [s EXCEPT !.requests = SubSeq(@, 1, Len(@) - 1),
                    !.resources = Tail(@),
                    !.outcome[w] = "resolved",
                    !.got[w] = r,
                    !.holding = @ \cup {w},
                    !.fulfilLog = Append(@, w)]

FulfillSkips(s) == s

Fulfill(s) ==
  IF Len(s.requests) = 0 \/ Len(s.resources) = 0
  THEN s
  ELSE LET w == Head(s.requests)
           r == Head(s.resources)
       IN [s EXCEPT !.requests = Tail(@),
                    !.resources = Tail(@),
                    !.outcome[w] = "resolved",
                    !.got[w] = r,
                    !.holding = @ \cup {w},
                    !.fulfilLog = Append(@, w)]

\* ----------------------------------------------------------------- acquire
AcquireKeepsResource(s, c) ==
  IF s.closed
  THEN [s EXCEPT !.outcome[c] = "rejected_closed"]
  ELSE IF Len(s.resources) # 0
  THEN [s EXCEPT !.outcome[c] = "resolved",
                 !.got[c] = Head(s.resources),
                 !.holding = @ \cup {c}]
  ELSE [s EXCEPT !.requests = Append(@, c),
                 !.outcome[c] = "pending",
                 !.enqLog = Append(@, c)]

AcquireOffByOne(s, c) ==
  IF s.closed
  THEN [s EXCEPT !.outcome[c] = "rejected_closed"]
  ELSE IF Len(s.resources) > 1
  THEN [s EXCEPT !.resources = Tail(@),
                 !.outcome[c] = "resolved",
                 !.got[c] = Head(s.resources),
                 !.holding = @ \cup {c}]
  ELSE [s EXCEPT !.requests = Append(@, c),
                 !.outcome[c] = "pending",
                 !.enqLog = Append(@, c)]

AcquireIgnoresClosed(s, c) ==
  IF Len(s.resources) # 0
  THEN [s EXCEPT !.resources = Tail(@),
                 !.outcome[c] = "resolved",
                 !.got[c] = Head(s.resources),
                 !.holding = @ \cup {c}]
  ELSE [s EXCEPT !.requests = Append(@, c),
                 !.outcome[c] = "pending",
                 !.enqLog = Append(@, c)]

AcquireEnqueuesWhenClosed(s, c) ==
  IF Len(s.resources) # 0
  THEN IF s.closed
       THEN [s EXCEPT !.outcome[c] = "rejected_closed"]
       ELSE [s EXCEPT !.resources = Tail(@),
                      !.outcome[c] = "resolved",
                      !.got[c] = Head(s.resources),
                      !.holding = @ \cup {c}]
  ELSE [s EXCEPT !.requests = Append(@, c),
                 !.outcome[c] = "pending",
                 !.enqLog = Append(@, c)]

\* acquire() called on the semaphore, as call number c.
AcquireOp(s, c) ==
  IF s.closed
  THEN [s EXCEPT !.outcome[c] = "rejected_closed"]
  ELSE IF Len(s.resources) # 0
  THEN [s EXCEPT !.resources = Tail(@),
                 !.outcome[c] = "resolved",
                 !.got[c] = Head(s.resources),
                 !.holding = @ \cup {c}]
  ELSE [s EXCEPT !.requests = Append(@, c),
                 !.outcome[c] = "pending",
                 !.enqLog = Append(@, c)]

\* ----------------------------------------------------------------- release
ReleaseNoFulfill(s, value) ==
  [s EXCEPT !.resources = Append(@, value)]

ReleaseRefusedWhenClosed(s, value) ==
  IF s.closed
  THEN s
  ELSE Fulfill([s EXCEPT !.resources = Append(@, value)])

ReleaseOp(s, value) ==
  Fulfill([s EXCEPT !.resources = Append(@, value)])

\* ------------------------------------------------------------------- flush
RECURSIVE FlushLoop(_)
FlushLoop(s) ==
  IF Len(s.requests) = 0
  THEN s
  ELSE LET w == Head(s.requests)
       IN FlushLoop([s EXCEPT !.requests = Tail(@),
                              !.outcome[w] = "cancelled",
                              !.cancelLog = Append(@, w)])

RECURSIVE FlushLoopNewestFirst(_)
FlushLoopNewestFirst(s) ==
  IF Len(s.requests) = 0
  THEN s
  ELSE LET w == s.requests[Len(s.requests)]
       IN FlushLoopNewestFirst(
            [s EXCEPT !.requests = SubSeq(@, 1, Len(@) - 1),
                      !.outcome[w] = "cancelled",
                      !.cancelLog = Append(@, w)])

FlushNewestFirst(s) == FlushLoopNewestFirst(s)

FlushRejectsWithoutShift(s) ==
  [s EXCEPT !.outcome = [c \in Calls |->
                           IF c \in Range(s.requests) THEN "cancelled"
                           ELSE @[c]],
            !.cancelLog = @ \o s.requests]

FlushOp(s) == FlushLoop(s)

\* -------------------------------------------------------------------- drop
\* Promise.all(Array(this.permits).fill(null).map(this.acquire)): map calls
\* acquire detached from the semaphore, so `this` is undefined in its body
\* and the first call throws a TypeError at `this.closed`, before any
\* resource is taken; with no element to map, Promise.all([]) fulfils with
\* no resources.
Drain(n) ==
  IF n = 0
  THEN [settled |-> "fulfilled", resources |-> <<>>]
  ELSE [settled |-> "TypeError", resources |-> <<>>]

DropWithoutFlush(s, options) ==
  LET shut == [s EXCEPT !.closed = TRUE]
      drained == Drain(shut.permits)
  IN IF drained.settled = "fulfilled"
     THEN [shut EXCEPT !.handled = IF options = "none" THEN @
                                   ELSE @ \o drained.resources,
                       !.dropState = "resolved"]
     ELSE [shut EXCEPT !.dropState = "rejected"]

\* drop(options): options is "none", "sync" or "async".  The throw inside
\* the async function rejects the promise drop() returns; options.fn is
\* applied only to the resources of a fulfilled drain.
DropOp(s, options) ==
  LET flushed == FlushOp(s)
      shut == [flushed EXCEPT !.closed = TRUE]
      drained == Drain(shut.permits)
  IN IF drained.settled = "fulfilled"
     THEN [shut EXCEPT !.handled = IF options = "none" THEN @
                                   ELSE @ \o drained.resources,
                       !.dropState = "resolved"]
     ELSE [shut EXCEPT !.dropState = "rejected"]

\* ----------------------------------------------------------------- actions
Acquire ==
  /\ nextCall <= MaxCalls
  /\ Become(AcquireOp(Sem, nextCall))
  /\ nextCall' = nextCall + 1
  /\ lastOp' = "acquire"
  /\ UNCHANGED <<onlyAcquires, misuses, dropOpts, dropPre>>
  /\ UNCHANGED rlVars

\* The caller of call c gives back the resource it holds.
Release(c) ==
  /\ c \in holding
  /\ Become(ReleaseOp([Sem EXCEPT !.holding = @ \ {c}], got[c]))
  /\ lastOp' = "release"
  /\ onlyAcquires' = FALSE
  /\ UNCHANGED <<nextCall, misuses, dropOpts, dropPre>>
  /\ UNCHANGED rlVars

\* A release() outside the caller contract: a value nobody was issued (0), or
\* a resource of this semaphore released by someone who does not hold it.
ReleaseUnheld(value) ==
  /\ misuses < MaxMisuse
  /\ Become(ReleaseOp(Sem, value))
  /\ misuses' = misuses + 1
  /\ lastOp' = "release"
  /\ onlyAcquires' = FALSE
  /\ UNCHANGED <<nextCall, dropOpts, dropPre>>
  /\ UNCHANGED rlVars

Flush ==
  /\ Become(FlushOp(Sem))
  /\ lastOp' = "flush"
  /\ onlyAcquires' = FALSE
  /\ UNCHANGED <<nextCall, misuses, dropOpts, dropPre>>
  /\ UNCHANGED rlVars

Drop(options) ==
  /\ Become(DropOp(Sem, options))
  /\ dropOpts' = options
  /\ dropPre' = [open |-> ~closed, idle |-> requests = <<>>,
                 full |-> Len(resources) = permits, holding |-> holding]
  /\ lastOp' = "drop"
  /\ onlyAcquires' = FALSE
  /\ UNCHANGED <<nextCall, misuses>>
  /\ UNCHANGED rlVars

Next ==
  \/ Acquire
  \/ \E c \in Calls : Release(c)
  \/ Flush
  \/ \E options \in {"none", "sync", "async"} : Drop(options)

\* Callers that keep the contract: release only what they hold.
Spec == Init /\ [][Next]_vars

NextMisuse ==
  \/ Acquire
  \/ \E c \in Calls : Release(c)
  \/ \E value \in 0..permits : ReleaseUnheld(value)
  \/ Flush
  \/ \E options \in {"none", "sync", "async"} : Drop(options)

\* Callers that keep the contract and do give back what they hold.
SpecFair == Spec /\ \A c \in Calls : WF_vars(Release(c))

\* Callers that may also release what they do not hold.
SpecMisuse == Init /\ [][NextMisuse]_vars

\* ------------------------------------------------------- SimpleRateLimiter
\* The clock counts ticks of 1/requests ms, so that interval / requests, a
\* division of JS numbers, is a whole number of ticks.
Ticks(options, ms) == ms * options.requests

LimiterPermitsAlwaysRequests(options) == options.requests

\* const permits = options.uniformDistribution ? 1 : options.requests
LimiterPermits(options) ==
  IF options.uniformDistribution THEN 1 ELSE options.requests

LimiterDelayAlwaysDivided(options) ==
  Ticks(options, options.interval) \div options.requests

LimiterDelayOneTickShort(options) ==
  IF options.uniformDistribution
  THEN Ticks(options, options.interval) \div options.requests - 1
  ELSE Ticks(options, options.interval) - 1

\* this.delay = uniformDistribution ? interval / requests : interval
LimiterDelay(options) ==
  IF options.uniformDistribution
  THEN Ticks(options, options.interval) \div options.requests
  ELSE Ticks(options, options.interval)

\* The value of voidResource(), and of the missing argument of release().
Void == 0

\* new SimpleRateLimiter(options)
NewLimiter(options) ==
  [requests |-> options.requests, interval |-> options.interval,
   uniformDistribution |-> options.uniformDistribution,
   delay |-> LimiterDelay(options)]

\* new Semaphore({permits, resource: voidResource})
NewLimiterSemaphore(options) ==
  [Construct(LimiterPermits(options)) EXCEPT
     !.resources = [i \in 1..LimiterPermits(options) |-> Void]]

InitRL ==
  /\ \E r \in 1..MaxRequests, i \in 1..MaxInterval, u \in BOOLEAN :
       LET options == [requests |-> r, interval |-> i,
                       uniformDistribution |-> u]
           t == NewLimiterSemaphore(options)
       IN /\ limiter = NewLimiter(options)
          /\ permits = t.permits
          /\ closed = t.closed
          /\ resources = t.resources
          /\ requests = t.requests
          /\ outcome = t.outcome
          /\ got = t.got
          /\ holding = t.holding
          /\ enqLog = t.enqLog
          /\ fulfilLog = t.fulfilLog
          /\ cancelLog = t.cancelLog
          /\ dropState = t.dropState
          /\ handled = t.handled
  /\ now = 0
  /\ timers = <<>>
  /\ callAt = [c \in Calls |-> -1]
  /\ admitAt = [c \in Calls |-> -1]
  /\ nextCall = 1
  /\ lastOp = "construct"
  /\ onlyAcquires = TRUE
  /\ misuses = 0
  /\ dropOpts = "none"
  /\ dropPre = [open |-> TRUE, idle |-> TRUE, full |-> TRUE, holding |-> {}]

SetTimeoutDropped(ts, c, delay) == ts

\* setTimeout(() => this.semaphore.release(), this.delay), set by call c.
SetTimeout(ts, c, delay) == Append(ts, [call |-> c, due |-> now + delay])

\* The calls a step has granted a permit: their acquire() promise went to
\* resolved, which runs the then-callback that sets the timer.
Granted(s, t) ==
  {c \in Calls : s.outcome[c] # "resolved" /\ t.outcome[c] = "resolved"}

RECURSIVE SetTimeouts(_, _, _)
SetTimeouts(ts, cs, delay) ==
  IF cs = {}
  THEN ts
  ELSE LET c == CHOOSE x \in cs : \A y \in cs : x <= y
       IN SetTimeouts(SetTimeout(ts, c, delay), cs \ {c}, delay)

\* SimpleRateLimiter.acquire(), as call number nextCall.
LimiterAcquire ==
  /\ nextCall <= MaxCalls
  /\ LET t == AcquireOp(Sem, nextCall)
         granted == Granted(Sem, t)
     IN /\ Become(t)
        /\ timers' = SetTimeouts(timers, granted, limiter.delay)
        /\ admitAt' = [c \in Calls |->
                         IF c \in granted THEN now ELSE admitAt[c]]
  /\ callAt' = [callAt EXCEPT ![nextCall] = now]
  /\ nextCall' = nextCall + 1
  /\ lastOp' = "acquire"
  /\ UNCHANGED <<onlyAcquires, misuses, dropOpts, dropPre, limiter, now>>

\* The host runs the earliest timer callback when it is due:
\* this.semaphore.release(), giving back the permit of the call that set it.
TimerFire ==
  /\ timers # <<>>
  /\ Head(timers).due = now
  /\ LET t == ReleaseOp([Sem EXCEPT !.holding = @ \ {Head(timers).call}],
                        Void)
         granted == Granted(Sem, t)
     IN /\ Become(t)
        /\ timers' = SetTimeouts(Tail(timers), granted, limiter.delay)
        /\ admitAt' = [c \in Calls |->
                         IF c \in granted THEN now ELSE admitAt[c]]
  /\ lastOp' = "release"
  /\ onlyAcquires' = FALSE
  /\ UNCHANGED <<nextCall, misuses, dropOpts, dropPre, limiter, now, callAt>>

\* A tick of the clock passes; callbacks that are due run first.
Tick ==
  /\ IF timers = <<>>
     THEN now < Ticks(limiter, MaxTime)
     ELSE Head(timers).due > now
  /\ now' = now + 1
  /\ UNCHANGED <<permits, closed, resources, requests, outcome, got, holding,
                 nextCall, enqLog, fulfilLog, cancelLog, lastOp, onlyAcquires,
                 misuses, dropState, dropOpts, dropPre, handled,
                 limiter, timers, callAt, admitAt>>

NextRL ==
  \/ LimiterAcquire
  \/ TimerFire
  \/ Tick

\* A rate limiter, its callers and the host timer.
SpecRL == InitRL /\ [][NextRL]_vars

\* The host lets time pass and runs due timer callbacks.
SpecRLFair == SpecRL /\ WF_vars(TimerFire) /\ WF_vars(Tick)

TypeOK ==
  /\ permits \in 1..MaxPermits
  /\ closed \in BOOLEAN
  /\ Range(resources) \subseteq 0..MaxPermits
  /\ Range(requests) \subseteq Calls
  /\ outcome \in [Calls -> {"none", "pending", "resolved", "cancelled",
                            "rejected_closed"}]
  /\ got \in [Calls -> 0..MaxPermits]
  /\ holding \subseteq Calls
  /\ nextCall \in 1..(MaxCalls + 1)
  /\ dropState \in {"none", "resolved", "rejected"}

\* ------------------------------------------------------------ properties
IsPrefix(p, q) == Len(p) <= Len(q) /\ SubSeq(q, 1, Len(p)) = p

Held == {got[c] : c \in holding}

\* C1: while the semaphore is open and callers release only what they hold,
\* the pooled resources plus the resources held by callers number exactly
\* `permits`, and they are the constructed resources, each in one place; so
\* at most `permits` resources are outstanding.
C1_PermitConservation ==
  ~closed =>
    /\ Len(resources) + Cardinality(holding) = permits
    /\ Cardinality(holding) <= permits
    /\ Cardinality(Held) = Cardinality(holding)
    /\ Range(resources) \cup Held = 1..permits

C1_Witness ==
  /\ ~closed
  /\ holding # {}
  /\ fulfilLog # <<>>
  /\ cancelLog # <<>>

NotCancelled(w) == outcome[w] # "cancelled"

\* C2: the waiters that were not cancelled are served in the order they were
\* enqueued: those fulfilled so far, in fulfilment order, followed by those
\* still queued, are exactly the enqueued waiters in arrival order.
C2_StrictFifo ==
  /\ SelectSeq(enqLog, NotCancelled) = fulfilLog \o requests
  /\ \A i \in 1..Len(fulfilLog) : outcome[fulfilLog[i]] = "resolved"

C2_Witness ==
  /\ fulfilLog # <<>>
  /\ requests # <<>>
  /\ cancelLog = <<>>

\* C3: after every operation, also with releases that break the caller
\* contract, the pool and the waiter queue are not both non-empty.
C3_NoIdleResourceWhileWaiting ==
  Len(resources) = 0 \/ Len(requests) = 0

C3_Witness ==
  /\ misuses > 0
  /\ Len(resources) > permits
  /\ fulfilLog # <<>>

\* C4: as long as only acquire() has been called on a fresh semaphore, calls
\* 1..permits have resolved without being enqueued and every later call is a
\* queued, pending waiter; and a pending waiter is resolved by a release()
\* step only.
C4_FirstPermitsImmediate ==
  [][/\ onlyAcquires' =>
          \A c \in 1..(nextCall' - 1) :
            IF c <= permits'
            THEN /\ outcome'[c] = "resolved"
                 /\ got'[c] = c
                 /\ c \notin Range(enqLog')
            ELSE /\ outcome'[c] = "pending"
                 /\ c \in Range(requests')
     /\ \A c \in Calls :
          (outcome[c] = "pending" /\ outcome'[c] = "resolved")
            => lastOp' = "release"]_vars

C4_Witness ==
  /\ onlyAcquires
  /\ nextCall > permits + 1
  /\ outcome[permits + 1] = "pending"

\* C5: once the semaphore is closed it stays closed, and no step enqueues a
\* waiter or takes a resource out of the pool; an acquire() call then is
\* rejected as closed.
C5_ClosedIsTerminal ==
  [][closed =>
       /\ closed'
       /\ requests' = requests
       /\ IsPrefix(resources, resources')
       /\ holding' \subseteq holding
       /\ nextCall' # nextCall => outcome'[nextCall] = "rejected_closed"]_vars

C5_Witness ==
  /\ closed
  /\ resources # <<>>
  /\ \E c \in Calls : outcome[c] = "rejected_closed"
  /\ lastOp = "acquire"

\* C6: a flush() step rejects the waiters queued when it is called, oldest
\* first, and nobody else; it leaves the pool and closed as they were, and
\* with an empty queue it changes nothing.
C6_FlushFrame ==
  [][lastOp' = "flush" =>
       /\ requests' = <<>>
       /\ cancelLog' = cancelLog \o requests
       /\ \A c \in Calls :
            outcome'[c] = IF c \in Range(requests) THEN "cancelled"
                          ELSE outcome[c]
       /\ resources' = resources
       /\ closed' = closed
       /\ holding' = holding /\ got' = got /\ fulfilLog' = fulfilLog
       /\ requests = <<>> => cancelLog' = cancelLog /\ outcome' = outcome]_vars

C6_Witness ==
  /\ lastOp = "flush"
  /\ Len(cancelLog) >= 2
  /\ resources = <<>>
  /\ ~closed

DropSettled == dropState \in {"resolved", "rejected"}

\* C7: a drop() called on an open semaphore with no queued waiter and all
\* `permits` resources pooled returns a promise that does not fail.
C7_DropOnFullPoolResolves ==
  (/\ dropState # "none"
   /\ dropPre.open
   /\ dropPre.idle
   /\ dropPre.full) => dropState # "rejected"

\* C8: a drop() called while callers hold resources returns a promise that
\* stays unsettled while any of those callers still holds its resource, and
\* does not fail afterwards.
C8_DropWaitsForHolders ==
  (dropState # "none" /\ dropPre.holding # {}) =>
    IF dropPre.holding \cap holding # {}
    THEN ~DropSettled
    ELSE dropState # "rejected"

\* C9: once a drop() with a synchronous handler has settled, the handler has
\* been called `permits` times, once with each resource.
C9_SyncHandlerOncePerResource ==
  (dropOpts = "sync" /\ DropSettled) =>
    /\ Len(handled) = permits
    /\ Range(handled) = 1..permits

\* C10: once a drop() with an asynchronous handler has settled, all
\* `permits` handler invocations have been started, one per resource.
C10_AsyncHandlerAllStarted ==
  (dropOpts = "async" /\ DropSettled) =>
    \A r \in 1..permits : \E i \in 1..Len(handled) : handled[i] = r

\* C11: a drop() step rejects every waiter queued when it is called, oldest
\* first, and a rejected waiter is never resolved or handed a resource by a
\* later step.
C11_DropCancelsWaiters ==
  [][/\ lastOp' = "drop" =>
          /\ requests' = <<>>
          /\ cancelLog' = cancelLog \o requests
          /\ \A c \in Range(requests) : outcome'[c] = "cancelled"
     /\ \A c \in Calls :
          outcome[c] = "cancelled" =>
            /\ outcome'[c] = "cancelled"
            /\ got'[c] = 0
            /\ c \notin holding']_vars

C11_Witness ==
  /\ closed
  /\ ~dropPre.idle
  /\ cancelLog # <<>>
  /\ lastOp = "release"

\* What release(got[c]) by the holder of call c does, whatever `closed` is:
\* the resource goes to the tail of the pool and is paired with the oldest
\* waiter if there is one.
ReleaseEffect(c) ==
  LET pushed == Append(resources, got[c]) IN
    /\ holding' \ {Head(requests \o <<c>>)} = holding \ {c}
    /\ closed' = closed
    /\ cancelLog' = cancelLog
    /\ IF requests = <<>>
       THEN /\ resources' = pushed
            /\ requests' = requests
            /\ outcome' = outcome
       ELSE /\ resources' = Tail(pushed)
            /\ requests' = Tail(requests)
            /\ outcome' = [outcome EXCEPT ![Head(requests)] = "resolved"]
            /\ got' = [got EXCEPT ![Head(requests)] = Head(pushed)]

\* C12: a release() by a holder has the same effect on a closed semaphore as
\* on an open one: no error, the resource is appended to the pool and pairing
\* is attempted, so a resource released after drop() is back in the pool.
C12_ReleaseWhenClosed ==
  [][(lastOp' = "release" /\ holding' # holding) =>
       \E c \in holding \ holding' : ReleaseEffect(c)]_vars

C12_Witness ==
  /\ closed
  /\ lastOp = "release"
  /\ resources # <<>>
  /\ dropPre.holding # {}
  /\ dropPre.holding \cap holding = {}

\* C16: once a drop() has settled and no caller holds a resource any more,
\* the pool is empty.
C16_PoolEmptyAfterDrop ==
  (DropSettled /\ holding = {}) => resources = <<>>

\* C17: when holders give back what they hold, a queued waiter does not wait
\* for ever: it is fulfilled, unless a flush() or drop() cancels it.
C17_NoStarvation ==
  \A c \in Calls :
    (outcome[c] = "pending") ~> (outcome[c] \in {"resolved", "cancelled"})

C17_Witness ==
  /\ Len(fulfilLog) >= 2
  /\ cancelLog = <<>>
  /\ ~closed

NoDuplicates(q) == \A i, j \in 1..Len(q) : q[i] = q[j] => i = j

\* C19: every enqueued waiter is in exactly one place: still queued,
\* fulfilled once or cancelled once; a cancelled waiter stays cancelled and
\* never holds a resource, and a fulfilled waiter is never cancelled.
C19_WaiterLeavesOnce ==
  [][/\ NoDuplicates(requests' \o fulfilLog' \o cancelLog')
     /\ Range(requests' \o fulfilLog' \o cancelLog') = Range(enqLog')
     /\ \A c \in Range(cancelLog') :
          outcome'[c] = "cancelled" /\ got'[c] = 0 /\ c \notin holding'
     /\ \A c \in Range(fulfilLog') : outcome'[c] = "resolved"
     /\ \A c \in Range(requests') : outcome'[c] = "pending"
     /\ IsPrefix(fulfilLog, fulfilLog')
     /\ IsPrefix(cancelLog, cancelLog')]_vars

C19_Witness ==
  /\ cancelLog # <<>>
  /\ fulfilLog # <<>>
  /\ lastOp = "release"

\* C20: in every closed state the waiter queue is empty.
C20_ClosedHasNoWaiters ==
  closed => requests = <<>>

C20_Witness ==
  /\ closed
  /\ resources = <<>>
  /\ cancelLog # <<>>
  /\ \E c \in Calls : outcome[c] = "rejected_closed"

Max(a, b) == IF a >= b THEN a ELSE b

Made == {c \in Calls : callAt[c] >= 0}

Admitted == {c \in Calls : admitAt[c] >= 0}

\* `interval` ms and `interval / requests` ms on the clock of the model.
IntervalTicks == limiter.interval * limiter.requests

SpacingTicks == limiter.interval

BackToBack == \A c \in Made : callAt[c] = 0

\* C13: in burst mode the first `requests` calls are admitted when they are
\* made, and call requests + j is admitted when the permit of call j comes
\* back, `interval` ms after call j was admitted (or when it is made, if
\* that is later), and not before; back-to-back calls are thus admitted at
\* 0, ..., 0, interval, ...
C13_BurstSlidingWindow ==
  ~limiter.uniformDistribution =>
    \A c \in Made :
      IF c <= limiter.requests
      THEN admitAt[c] = callAt[c]
      ELSE LET back == admitAt[c - limiter.requests] + IntervalTicks IN
             IF c \in Admitted
             THEN admitAt[c] = Max(callAt[c], back)
             ELSE c - limiter.requests \notin Admitted \/ now <= back

C13_Witness ==
  /\ ~limiter.uniformDistribution
  /\ limiter.requests >= 2
  /\ BackToBack
  /\ limiter.requests + 1 \in Admitted
  /\ admitAt[limiter.requests + 1] = IntervalTicks

\* C14: in uniform mode the semaphore has one permit, at most one call holds
\* it, consecutive admissions are at least interval / requests ms apart, and
\* the k-th of back-to-back calls is admitted at (k - 1) * interval / requests.
C14_UniformSpacing ==
  limiter.uniformDistribution =>
    /\ permits = 1
    /\ Cardinality(holding) <= 1
    /\ \A c \in Admitted :
         /\ c > 1 => admitAt[c] >= admitAt[c - 1] + SpacingTicks
         /\ BackToBack => admitAt[c] = (c - 1) * SpacingTicks
    /\ \A c \in Made \ Admitted : now <= (c - 1) * SpacingTicks \/ ~BackToBack

C14_Witness ==
  /\ limiter.uniformDistribution
  /\ limiter.requests >= 2
  /\ BackToBack
  /\ Admitted = Calls

\* C15: in both modes, no window of `interval` ms that starts at an admission
\* (hence no half-open window of that length at all) contains more than
\* `requests` admissions.
C15_RateBound ==
  \A c \in Admitted :
    Cardinality({d \in Admitted :
                   /\ admitAt[c] <= admitAt[d]
                   /\ admitAt[d] < admitAt[c] + IntervalTicks})
      <= limiter.requests

C15_Witness ==
  /\ Admitted = Calls
  /\ MaxCalls > limiter.requests
  /\ \E c \in Calls :
       Cardinality({d \in Calls :
                      /\ admitAt[c] <= admitAt[d]
                      /\ admitAt[d] < admitAt[c] + IntervalTicks})
         = limiter.requests
  /\ \E c \in Calls : admitAt[c] > callAt[c]

TimersOf(c) == {i \in 1..Len(timers) : timers[i].call = c}

\* Every call that holds a permit has exactly one pending release, due
\* `delay` after its admission, and there are no other pending releases;
\* calls are admitted in the order they were made.
C18_OneReleaseEach ==
  /\ \A c \in Calls :
       IF c \in holding
       THEN /\ c \in Admitted
            /\ Cardinality(TimersOf(c)) = 1
            /\ \A i \in TimersOf(c) :
                 timers[i].due = admitAt[c] + limiter.delay
            /\ now <= admitAt[c] + limiter.delay
       ELSE /\ TimersOf(c) = {}
            /\ c \in Admitted => now >= admitAt[c] + limiter.delay
  /\ \A c, d \in Calls :
       (c < d /\ d \in Admitted) =>
         (c \in Admitted /\ admitAt[c] <= admitAt[d])

\* A permit is given back exactly `delay` after its admission.
C18_ReleaseStep ==
  \A c \in holding \ holding' : now = admitAt[c] + limiter.delay

\* C18: every admitted call sets exactly one release of its permit, which
\* runs `delay` after the admission and is never cancelled; and, the host
\* running due timers, every call is eventually admitted, in call order.
C18_EveryCallAdmitted ==
  /\ []C18_OneReleaseEach
  /\ [][C18_ReleaseStep]_vars
  /\ \A c \in Calls : (callAt[c] >= 0) ~> (admitAt[c] >= 0)

C18_Witness ==
  /\ Admitted = Calls
  /\ holding = {}
  /\ timers = <<>>
  /\ fulfilLog # <<>>
====
